---- MODULE Spec2Model ----
(***************************************************************************)
(* Crew-flight assignment (Probleme13): the DataModel catalog, the model   *)
(* GurobiSolver.solve() builds from it (variables, constraints, weighted   *)
(* objective), the optimizer's answer, extract_results and the fallback    *)
(* selector create_fallback_solution.                                      *)
(*                                                                         *)
(* Conventions.  Catalog rows are addressed by their position, 1-based     *)
(* (Python's f_idx + 1); a row's id/name is its position.  Python lists of  *)
(* qualifications and languages are sets.  lambda_weight is kept in        *)
(* hundredths (the slider position), and objective values are kept         *)
(* multiplied by LambdaScale so that they stay integers.  previous is a    *)
(* history variable: empty, or the one record of the min_rest, variables,  *)
(* status, valuation and report of the run before, once the window has     *)
(* started a second run on the same catalog.  window is the main window    *)
(* around the solver thread: whether it is open, whether tab_widget is     *)
(* enabled, the state of solver_thread, the number of finished_signal      *)
(* emissions of its run(), and data_model.solution / objective_value (the  *)
(* empty sequence for None).  document is a dictionary written by          *)
(* DataModel.to_dict and what from_dict made of it.                        *)
(***************************************************************************)
EXTENDS Integers, Sequences, FiniteSets, TLC

VARIABLES flights, pilots, copilots,
          min_rest, base_penalty_coeff, lambda_weight,
          pc, y_vars, status, X, results,
          optimizeCalls, fallbackCalls,
          previous, window, document

vars == <<flights, pilots, copilots, min_rest, base_penalty_coeff,
          lambda_weight, pc, y_vars, status, X, results,
          optimizeCalls, fallbackCalls, previous, window, document>>

catalog == <<flights, pilots, copilots, min_rest, base_penalty_coeff, lambda_weight>>

----------------------------------------------------------------------------
(* Bounds of the model *)

MaxList == 2

MaxEntities == 5

MaxTime == 3

MaxHours == 2

(* Program constants *)

weight_per_flight == 1000

LambdaScale == 100

GRB_LOADED == 1

GRB_OPTIMAL == 2

GRB_INFEASIBLE == 3

GRB_TIME_LIMIT == 9

GRB_INTERRUPTED == 11

NoneVal == "None"

(* The variable results before solve() has returned anything: a report    *)
(* with none of a report's keys.                                           *)
NoResults == [unassigned |-> TRUE]

----------------------------------------------------------------------------
(* Input domains *)

AircraftTypes == {"A320", "B737"}

Languages == {"FR", "EN"}

Bases == {"CDG", "ORY"}

Lambdas == {0, 50, 100}

Times == 0 .. MaxTime

Durations == {1, 2}

HourLimits == 0 .. MaxHours

MinRests == {0, 1, 2}

HourlyCosts == {1, 600}

OpCosts == {0, 500}

PenaltyCoeffs == {0, 100}

Flight(dep, arr, dur, type, base, langs, op) ==
    [departure |-> dep, arrival |-> arr, duration |-> dur, aircraft_type |-> type,
     arr_base |-> base, languages |-> langs, op_cost |-> op]

Crew(quals, langs, cost, base, maxh) ==
    [qualifications |-> quals, languages |-> langs, hourly_cost |-> cost,
     base |-> base, max_hours |-> maxh]

----------------------------------------------------------------------------
(* GurobiSolver.solve(): 1. variables *)

FlightIdx == 1 .. Len(flights)

PilotIdx == 1 .. Len(pilots)

CopilotIdx == 1 .. Len(copilots)

InsufficientData == Len(flights) = 0 \/ Len(pilots) = 0 \/ Len(copilots) = 0

Compatible_NoCopilotLang(flight, pilot, copilot) ==
    /\ flight.aircraft_type \in pilot.qualifications
    /\ flight.aircraft_type \in copilot.qualifications
    /\ \A lang \in flight.languages : lang \in pilot.languages

(* The flag `compatible` after the four tests of the loop body. *)
Compatible(flight, pilot, copilot) ==
    LET c0 == TRUE
        c1 == IF flight.aircraft_type \notin pilot.qualifications THEN FALSE ELSE c0
        c2 == IF flight.aircraft_type \notin copilot.qualifications THEN FALSE ELSE c1
        c3 == IF ~(\A lang \in flight.languages : lang \in pilot.languages)
              THEN FALSE ELSE c2
        c4 == IF ~(\A lang \in flight.languages : lang \in copilot.languages)
              THEN FALSE ELSE c3
    IN  c4

CreateVars ==
    {v \in FlightIdx \X PilotIdx \X CopilotIdx :
        Compatible(flights[v[1]], pilots[v[2]], copilots[v[3]])}

NoVariables_Never(yv) == FALSE

NoVariables(yv) == Cardinality(yv) = 0

----------------------------------------------------------------------------------------------------------------------------------------
(* GurobiSolver.solve(): 2. constraints.  A constraint added to the model  *)
(* is a record: the variables of its left-hand side, whether each counts   *)
(* for 1 or for its flight's duration, the sense and the right-hand side.  *)

Constr(name, lhs, byDuration, sense, rhs) ==
    [name |-> name, vars |-> lhs, byDuration |-> byDuration, sense |-> sense, rhs |-> rhs]

VarsF(f) == {v \in y_vars : v[1] = f}

VarsFP(f, p) == {v \in y_vars : v[1] = f /\ v[2] = p}

VarsFC(f, c) == {v \in y_vars : v[1] = f /\ v[3] = c}

VarsP(p) == {v \in y_vars : v[2] = p}

VarsC(c) == {v \in y_vars : v[3] = c}

CoverageConstrs_AtMostTwo ==
    {Constr(<<"vol", f>>, VarsF(f), FALSE, "<=", 2) :
        f \in {g \in FlightIdx : VarsF(g) # {}}}

(* Contrainte 1 *)
CoverageConstrs ==
    {Constr(<<"vol", f>>, VarsF(f), FALSE, "<=", 1) :
        f \in {g \in FlightIdx : VarsF(g) # {}}}

Overlapping_Strict(f1, f2) ==
    ~(f1.arrival < f2.departure \/ f2.arrival < f1.departure)

Overlapping(f1, f2) ==
    ~(f1.arrival <= f2.departure \/ f2.arrival <= f1.departure)

overlaps ==
    {pr \in FlightIdx \X FlightIdx :
        pr[1] < pr[2] /\ Overlapping(flights[pr[1]], flights[pr[2]])}

(* Contrainte 2, pilots *)
OverlapConstrsPilots ==
    {Constr(<<"overlap_p", q[1], q[2][1], q[2][2]>>,
            VarsFP(q[2][1], q[1]) \cup VarsFP(q[2][2], q[1]), FALSE, "<=", 1) :
        q \in {r \in PilotIdx \X overlaps :
                 VarsFP(r[2][1], r[1]) # {} /\ VarsFP(r[2][2], r[1]) # {}}}

OverlapConstrsCopilots_PilotIndex ==
    {Constr(<<"overlap_c", q[1], q[2][1], q[2][2]>>,
            VarsFP(q[2][1], q[1]) \cup VarsFP(q[2][2], q[1]), FALSE, "<=", 1) :
        q \in {r \in CopilotIdx \X overlaps :
                 VarsFP(r[2][1], r[1]) # {} /\ VarsFP(r[2][2], r[1]) # {}}}

(* Contrainte 2, copilots *)
OverlapConstrsCopilots ==
    {Constr(<<"overlap_c", q[1], q[2][1], q[2][2]>>,
            VarsFC(q[2][1], q[1]) \cup VarsFC(q[2][2], q[1]), FALSE, "<=", 1) :
        q \in {r \in CopilotIdx \X overlaps :
                 VarsFC(r[2][1], r[1]) # {} /\ VarsFC(r[2][2], r[1]) # {}}}

RestTooClose_Swapped(f1, f2) ==
    /\ f2.departure > f1.arrival
    /\ LET time_between == f1.arrival - f2.departure
       IN  0 < time_between /\ time_between < min_rest

RestTooClose_Beyond(f1, f2) ==
    /\ f2.departure > f1.arrival
    /\ LET time_between == f2.departure - f1.arrival
       IN  0 < time_between /\ time_between >= min_rest

(* The test of the rest loop on the ordered pair (f1, f2): f2 after f1. *)
RestTooClose(f1, f2) ==
    /\ f2.departure > f1.arrival
    /\ LET time_between == f2.departure - f1.arrival
       IN  0 < time_between /\ time_between < min_rest

(* Contrainte 3: the loop runs over the pilots only. *)
RestConstrsPilots ==
    {Constr(<<"rest_p", q[1], q[2], q[3]>>,
            VarsFP(q[2], q[1]) \cup VarsFP(q[3], q[1]), FALSE, "<=", 1) :
        q \in {r \in PilotIdx \X FlightIdx \X FlightIdx :
                 /\ r[2] # r[3]
                 /\ RestTooClose(flights[r[2]], flights[r[3]])
                 /\ VarsFP(r[2], r[1]) # {} /\ VarsFP(r[3], r[1]) # {}}}

MaxHoursConstrsPilots_None == {}

(* Contrainte 4, pilots *)
MaxHoursConstrsPilots ==
    {Constr(<<"max_hours_p", p>>, VarsP(p), TRUE, "<=", pilots[p].max_hours) :
        p \in {q \in PilotIdx : VarsP(q) # {}}}

MaxHoursConstrsCopilots_None == {}

(* Contrainte 4, copilots *)
MaxHoursConstrsCopilots ==
    {Constr(<<"max_hours_c", c>>, VarsC(c), TRUE, "<=", copilots[c].max_hours) :
        c \in {q \in CopilotIdx : VarsC(q) # {}}}

MinOneConstrs_Missing == {}

(* Contrainte 5 *)
MinOneConstrs ==
    IF Cardinality(y_vars) > 0
    THEN {Constr(<<"min_one_assignment">>, y_vars, FALSE, ">=", 1)}
    ELSE {}

ModelConstrs ==
    CoverageConstrs \cup OverlapConstrsPilots \cup OverlapConstrsCopilots
        \cup RestConstrsPilots \cup MaxHoursConstrsPilots \cup MaxHoursConstrsCopilots
        \cup MinOneConstrs

RECURSIVE SumDuration(_)
SumDuration(S) ==
    IF S = {} THEN 0
    ELSE LET v == CHOOSE w \in S : TRUE
         IN  flights[v[1]].duration + SumDuration(S \ {v})

(* Valuation S (the set of variables valued 1) satisfies constraint c. *)
Satisfies(S, c) ==
    LET lhs == IF c.byDuration THEN SumDuration(S \cap c.vars)
               ELSE Cardinality(S \cap c.vars)
    IN  IF c.sense = "<=" THEN lhs <= c.rhs ELSE lhs >= c.rhs

----------------
(* GurobiSolver.solve(): 3. objective *)

BasePenalty(flight, pilot, copilot) ==
    LET b0 == 0
        b1 == IF flight.arr_base # pilot.base THEN b0 + 1 ELSE b0
        b2 == IF flight.arr_base # copilot.base THEN b1 + 1 ELSE b1
    IN  b2 * base_penalty_coeff

total_cost_NoPenalty(v) ==
    LET flight == flights[v[1]]
        pilot == pilots[v[2]]
        copilot == copilots[v[3]]
    IN  (pilot.hourly_cost + copilot.hourly_cost) * flight.duration + flight.op_cost

(* total_cost of the objective's cost_expr for variable v *)
total_cost(v) ==
    LET flight == flights[v[1]]
        pilot == pilots[v[2]]
        copilot == copilots[v[3]]
        salary_cost == (pilot.hourly_cost + copilot.hourly_cost) * flight.duration
        op_cost == flight.op_cost
    IN  salary_cost + op_cost + BasePenalty(flight, pilot, copilot)

RECURSIVE SumCost(_)
SumCost(S) ==
    IF S = {} THEN 0
    ELSE LET v == CHOOSE w \in S : TRUE
         IN  total_cost(v) + SumCost(S \ {v})

Z1(S) == Cardinality(S)

Z2_Unnegated(S) == SumCost(S)

Z2(S) == 0 - SumCost(S)

Objective_DoubleWeight(S) ==
    LET lambda_val == lambda_weight
    IN  IF lambda_val = 0 THEN LambdaScale * Z2(S)
        ELSE IF lambda_val = LambdaScale THEN LambdaScale * Z1(S)
        ELSE LET normalized_Z1 == Z1(S) * (weight_per_flight + weight_per_flight)
             IN  lambda_val * normalized_Z1 + (LambdaScale - lambda_val) * Z2(S)

(* The objective of valuation S, multiplied by LambdaScale. *)
Objective(S) ==
    LET lambda_val == lambda_weight
    IN  IF lambda_val = 0 THEN LambdaScale * Z2(S)
        ELSE IF lambda_val = LambdaScale THEN LambdaScale * Z1(S)
        ELSE LET normalized_Z1 == Z1(S) * weight_per_flight
             IN  lambda_val * normalized_Z1 + (LambdaScale - lambda_val) * Z2(S)

(* The optimizer: the valuations that satisfy the constraints, and the best *)
(* of them for the objective, sense MAXIMIZE.                               *)
Feasible ==
    LET cons == ModelConstrs
    IN  {S \in SUBSET y_vars : \A c \in cons : Satisfies(S, c)}

Optimal(feas) ==
    LET obj == [S \in feas |-> Objective(S)]
        values == {obj[S] : S \in feas}
        ObjVal == CHOOSE m \in values : \A w \in values : w <= m
    IN  IF feas = {} THEN {} ELSE {S \in feas : obj[S] = ObjVal}

----------------------------------------------------------------------------
(* GurobiSolver.extract_results and get_status_string *)

get_status_string(st) ==
    IF st = GRB_OPTIMAL THEN "OPTIMAL"
    ELSE IF st = GRB_INFEASIBLE THEN "INFAISABLE"
    ELSE IF st = GRB_TIME_LIMIT THEN "TEMPS_LIMITE"
    ELSE "AUTRE"

(* y_vars.items(): the variables in creation order, flights outermost. *)
AllTriples ==
    LET P == Len(pilots)
        C == Len(copilots)
    IN  [k \in 1 .. Len(flights) * P * C |->
            <<((k - 1) \div (P * C)) + 1, (((k - 1) \div C) % P) + 1, ((k - 1) % C) + 1>>]

InYVars(v) == v \in y_vars

y_vars_items_Unstable ==
    LET items == SelectSeq(AllTriples, InYVars)
    IN  IF Len(previous) = 0 THEN items
        ELSE [k \in 1 .. Len(items) |-> items[Len(items) + 1 - k]]

(* y_vars.items(): the keys in the order the variable loop inserted them *)
y_vars_items == SelectSeq(AllTriples, InYVars)

(* flight_cost of the extraction loop *)
flight_cost(v) ==
    LET flight == flights[v[1]]
        pilot == pilots[v[2]]
        copilot == copilots[v[3]]
        salary_cost == (pilot.hourly_cost + copilot.hourly_cost) * flight.duration
        op_cost == flight.op_cost
    IN  salary_cost + op_cost + BasePenalty(flight, pilot, copilot)

Assignment(v, cost) ==
    [flight |-> v[1], pilot |-> v[2], copilot |-> v[3],
     departure |-> flights[v[1]].departure, arrival |-> flights[v[1]].arrival,
     duration |-> flights[v[1]].duration, aircraft |-> flights[v[1]].aircraft_type,
     cost |-> cost]

RECURSIVE SumSeqCost(_)
SumSeqCost(sq) ==
    IF sq = <<>> THEN 0 ELSE Head(sq).cost + SumSeqCost(Tail(sq))

extract_results_AnyIncumbent(st, x, objval) ==
    LET InX(v) == v \in x
        chosen == SelectSeq(y_vars_items, InX)
        assignments == [i \in 1 .. Len(chosen) |-> Assignment(chosen[i], flight_cost(chosen[i]))]
    IN  [status |-> st, status_str |-> get_status_string(st),
         objective_value |-> IF st = GRB_OPTIMAL \/ x # {} THEN objval ELSE NoneVal,
         solution |-> {chosen[i] : i \in 1 .. Len(chosen)},
         assignments |-> assignments,
         total_cost |-> SumSeqCost(assignments)]

(* x: the variables whose X is above 0.5; objval: model.ObjVal, times LambdaScale *)
extract_results(st, x, objval) ==
    LET InX(v) == v \in x
        chosen == SelectSeq(y_vars_items, InX)
        assignments == [i \in 1 .. Len(chosen) |-> Assignment(chosen[i], flight_cost(chosen[i]))]
        base == [status |-> st, status_str |-> get_status_string(st),
                 objective_value |-> NoneVal, solution |-> {},
                 assignments |-> <<>>, total_cost |-> 0]
    IN  IF st = GRB_OPTIMAL
        THEN [base EXCEPT !.objective_value = objval,
                          !.solution = {chosen[i] : i \in 1 .. Len(chosen)},
                          !.assignments = assignments,
                          !.total_cost = SumSeqCost(assignments)]
        ELSE base

create_fallback_solution_Unchecked ==
    LET take == flights # <<>> /\ pilots # <<>> /\ copilots # <<>>
        solution == IF take THEN {<<1, 1, 1>>} ELSE {}
        assignments ==
            IF take
            THEN << Assignment(<<1, 1, 1>>,
                      (pilots[1].hourly_cost + copilots[1].hourly_cost) * flights[1].duration
                        + flights[1].op_cost) >>
            ELSE <<>>
    IN  [status |-> 2, status_str |-> "OPTIMAL (secours)",
         objective_value |-> LambdaScale * Cardinality(solution),
         solution |-> solution, assignments |-> assignments]

(* GurobiSolver.create_fallback_solution; status 2 is the literal of the code *)
create_fallback_solution ==
    LET take == /\ flights # <<>> /\ pilots # <<>> /\ copilots # <<>>
                /\ flights[1].aircraft_type \in pilots[1].qualifications
                /\ flights[1].aircraft_type \in copilots[1].qualifications
        solution == IF take THEN {<<1, 1, 1>>} ELSE {}
        assignments ==
            IF take
            THEN << Assignment(<<1, 1, 1>>,
                      (pilots[1].hourly_cost + copilots[1].hourly_cost) * flights[1].duration
                        + flights[1].op_cost) >>
            ELSE <<>>
    IN  [status |-> 2, status_str |-> "OPTIMAL (secours)",
         objective_value |-> LambdaScale * Cardinality(solution),
         solution |-> solution, assignments |-> assignments]

insufficient_data_report ==
    [status |-> 0 - 1, status_str |-> "ERREUR",
     message |-> "Donnees insuffisantes", solution |-> {}]

----------------------------------------------------------------------------
(* Catalogs *)

Shapes ==
    {sh \in (0 .. MaxList) \X (0 .. MaxList) \X (0 .. MaxList) :
        sh[1] + sh[2] + sh[3] <= MaxEntities}

FullShapes == {sh \in Shapes : sh[1] >= 1 /\ sh[2] >= 1 /\ sh[3] >= 1}

DefaultCrew == Crew({"A320"}, {"FR"}, 1, "CDG", MaxHours)

FlightLanguageSets == {{"FR"}, {"FR", "EN"}}

CrewLanguageSets == {{"FR"}, {"FR", "EN"}}

QualificationSets == {{"A320"}, {"A320", "B737"}}

(* Timing catalogs: departures, arrivals, min_rest and lambda vary; a      *)
(* flight lasts from its departure to its arrival.                         *)
TimingFlights ==
    {Flight(iv[1], iv[2], iv[2] - iv[1], "A320", "CDG", {"FR"}, 0) :
        iv \in {tt \in Times \X Times : tt[1] < tt[2]}}

TimingCatalog(sh) ==
    /\ flights \in [1 .. sh[1] -> TimingFlights]
    /\ pilots = [i \in 1 .. sh[2] |-> DefaultCrew]
    /\ copilots = [i \in 1 .. sh[3] |-> DefaultCrew]
    /\ min_rest \in MinRests
    /\ base_penalty_coeff = 100
    /\ lambda_weight \in Lambdas

(* Hours catalogs: durations, hour limits and lambda vary; flight i        *)
(* occupies [i-1, i] whatever its duration.                                *)
HoursCrew == {Crew({"A320"}, {"FR"}, 1, "CDG", h) : h \in HourLimits}

HoursCatalog(sh) ==
    /\ \E fs \in [1 .. sh[1] -> Durations] :
         flights = [i \in 1 .. sh[1] |->
                      Flight(i - 1, i, fs[i], "A320", "CDG", {"FR"}, 0)]
    /\ pilots \in [1 .. sh[2] -> HoursCrew]
    /\ copilots \in [1 .. sh[3] -> HoursCrew]
    /\ min_rest = 0
    /\ base_penalty_coeff = 100
    /\ lambda_weight \in Lambdas

(* Compatibility catalogs: aircraft types, qualifications and languages    *)
(* vary, and a crew member may have no hours left.                         *)
CompatCrew ==
    {Crew(q, L, 1, "CDG", MaxHours) : q \in QualificationSets, L \in CrewLanguageSets}
        \cup {Crew({"A320"}, {"FR"}, 1, "CDG", 0)}

CompatCatalog(sh) ==
    /\ \E fs \in [1 .. sh[1] -> AircraftTypes \X FlightLanguageSets] :
         flights = [i \in 1 .. sh[1] |->
                      Flight(i - 1, i, 1, fs[i][1], "CDG", fs[i][2], 0)]
    /\ pilots \in [1 .. sh[2] -> CompatCrew]
    /\ copilots \in [1 .. sh[3] -> CompatCrew]
    /\ min_rest = 8
    /\ base_penalty_coeff = 100
    /\ lambda_weight = 50

(* Salary catalogs: hourly costs, operational costs and lambda vary; every *)
(* crew member is based where the flights arrive.                          *)
SalaryCrew == {Crew({"A320"}, {"FR"}, k, "CDG", MaxHours) : k \in HourlyCosts}

SalaryCatalog(sh) ==
    /\ \E fs \in [1 .. sh[1] -> OpCosts] :
         flights = [i \in 1 .. sh[1] |->
                      Flight(i - 1, i, 1, "A320", "CDG", {"FR"}, fs[i])]
    /\ pilots \in [1 .. sh[2] -> SalaryCrew]
    /\ copilots \in [1 .. sh[3] -> SalaryCrew]
    /\ min_rest = 8
    /\ base_penalty_coeff = 100
    /\ lambda_weight \in Lambdas

(* Base catalogs: arrival bases, home bases, the penalty coefficient and   *)
(* lambda vary; the crews speak FR only, so a flight that requires EN has  *)
(* no compatible crew.                                                     *)
BaseFlightKinds ==
    {<<b, {"FR"}>> : b \in Bases} \cup {<<"ORY", {"FR", "EN"}>>}

BaseCrew == {Crew({"A320"}, {"FR"}, 1, b, MaxHours) : b \in Bases}

BaseCatalog(sh) ==
    /\ \E fs \in [1 .. sh[1] -> BaseFlightKinds] :
         flights = [i \in 1 .. sh[1] |->
                      Flight(i - 1, i, 1, "A320", fs[i][1], fs[i][2], 0)]
    /\ pilots \in [1 .. sh[2] -> BaseCrew]
    /\ copilots \in [1 .. sh[3] -> BaseCrew]
    /\ min_rest = 8
    /\ base_penalty_coeff \in PenaltyCoeffs
    /\ lambda_weight \in Lambdas

(* Catalogs with an empty list. *)
InsufficientCatalog(sh) ==
    /\ flights = [i \in 1 .. sh[1] |-> Flight(i - 1, i, 1, "A320", "CDG", {"FR"}, 0)]
    /\ pilots = [i \in 1 .. sh[2] |-> DefaultCrew]
    /\ copilots = [i \in 1 .. sh[3] |-> DefaultCrew]
    /\ min_rest = 8
    /\ base_penalty_coeff = 100
    /\ lambda_weight = 50

(* Malformed catalogs: one flight whose arrival may not follow its         *)
(* departure and whose operational cost may be negative, one pilot whose   *)
(* hourly cost or hour limit may be negative; the tables store whatever    *)
(* number was typed.  At least one of the fields is malformed.             *)
IsMalformedFlight(f) == f.arrival <= f.departure \/ f.op_cost < 0

IsMalformedCrew(c) == c.hourly_cost < 0 \/ c.max_hours < 0

IsMalformedCatalog ==
    \/ \E f \in FlightIdx : IsMalformedFlight(flights[f])
    \/ \E p \in PilotIdx : IsMalformedCrew(pilots[p])
    \/ \E c \in CopilotIdx : IsMalformedCrew(copilots[c])

MalformedCatalog ==
    /\ \E d \in Times : \E a \in Times : \E L \in FlightLanguageSets : \E op \in {-500, 0} :
         flights = << Flight(d, a, 1, "A320", "CDG", L, op) >>
    /\ \E k \in {-1, 1} : \E h \in {-1, MaxHours} :
         pilots = << Crew({"A320"}, {"FR"}, k, "CDG", h) >>
    /\ copilots = << DefaultCrew >>
    /\ min_rest = 8
    /\ base_penalty_coeff = 100
    /\ lambda_weight = 50
    /\ IsMalformedCatalog

----------------------------------------------------------------------------
(* State machine *)

(* A solver that has built nothing yet, in a window that has run nothing  *)
(* and a data model that has saved nothing.                                *)
NoWindow ==
    [open |-> TRUE, enabled |-> TRUE, thread |-> "none", emitted |-> 0,
     solution |-> <<>>, objective_value |-> <<>>]

NoDocument == [dict |-> <<>>, loaded |-> <<>>, error |-> ""]

Fresh(at) ==
    /\ pc = at
    /\ y_vars = {}
    /\ status = GRB_LOADED
    /\ X = {}
    /\ results = NoResults
    /\ optimizeCalls = 0
    /\ fallbackCalls = 0
    /\ previous = <<>>
    /\ window = NoWindow
    /\ document = NoDocument

Init ==
    /\ \/ \E sh \in FullShapes : TimingCatalog(sh)
       \/ \E sh \in FullShapes : HoursCatalog(sh)
       \/ \E sh \in FullShapes : CompatCatalog(sh)
       \/ \E sh \in FullShapes : SalaryCatalog(sh)
       \/ \E sh \in FullShapes : BaseCatalog(sh)
       \/ \E sh \in Shapes \ FullShapes : InsufficientCatalog(sh)
    /\ Fresh("start")

(* solve(): the data check and the variable loop *)
SolveBuild ==
    /\ pc = "start"
    /\ IF InsufficientData
       THEN /\ results' = insufficient_data_report
            /\ pc' = "done"
            /\ UNCHANGED y_vars
       ELSE /\ y_vars' = CreateVars
            /\ pc' = IF NoVariables(CreateVars) THEN "fallback" ELSE "optimize"
            /\ UNCHANGED results
    /\ UNCHANGED <<catalog, status, X, optimizeCalls, fallbackCalls, previous, window, document>>

(* solve(): return self.create_fallback_solution(...) *)
SolveFallback ==
    /\ pc = "fallback"
    /\ results' = create_fallback_solution
    /\ fallbackCalls' = fallbackCalls + 1
    /\ pc' = "done"
    /\ UNCHANGED <<catalog, y_vars, status, X, optimizeCalls, previous, window, document>>

(* model.optimize(): the optimizer proves optimality or infeasibility, or  *)
(* stops at the time limit with or without an incumbent (taken among the   *)
(* best valuations), or is interrupted.  The outcomes <<status, X>>.       *)
OptimizeOutcomes ==
    LET feas == Feasible
        best == Optimal(feas)
    IN  (IF feas # {} THEN {<<GRB_OPTIMAL, S>> : S \in best}
                      ELSE {<<GRB_INFEASIBLE, {}>>})
          \cup {<<GRB_TIME_LIMIT, S>> : S \in best \cup {{}}}
          \cup {<<GRB_INTERRUPTED, {}>>}

(* solve(): constraints, objective, model.optimize() and                  *)
(* results = self.extract_results(...); return results                     *)
SolveOptimize ==
    /\ pc = "optimize"
    /\ \E out \in OptimizeOutcomes :
         /\ status' = out[1]
         /\ X' = out[2]
         /\ results' = extract_results(out[1], out[2], Objective(out[2]))
    /\ optimizeCalls' = optimizeCalls + 1
    /\ pc' = "done"
    /\ UNCHANGED <<catalog, y_vars, fallbackCalls, previous, window, document>>

Next == SolveBuild \/ SolveFallback \/ SolveOptimize

Spec == Init /\ [][Next]_vars

(* A second run on the same catalog.  on_solver_finished re-enables the    *)
(* tabs; the operator sets min_rest_spin and presses solve; run_solver     *)
(* calls save_all_data, which stores the spin's value, returns at once on  *)
(* an empty list, and otherwise starts a new GurobiSolver.  The run before *)
(* is remembered in previous; one second run is followed.                  *)
RunSolverAgain ==
    /\ pc = "done"
    /\ Len(previous) = 0
    /\ ~InsufficientData
    /\ \E mr \in MinRests : min_rest' = mr
    /\ previous' = <<[min_rest |-> min_rest, status_str |-> results.status_str,
                       objective_value |-> results.objective_value,
                       y_vars |-> y_vars, status |-> status, X |-> X,
                       results |-> results]>>
    /\ pc' = "start"
    /\ y_vars' = {}
    /\ status' = GRB_LOADED
    /\ X' = {}
    /\ results' = NoResults
    /\ optimizeCalls' = 0
    /\ fallbackCalls' = 0
    /\ UNCHANGED <<flights, pilots, copilots, base_penalty_coeff, lambda_weight,
                   window, document>>

(* Two runs in a row: on the timing catalogs of at most two flights, two   *)
(* pilots and one copilot, where min_rest decides what a pilot may fly,    *)
(* and on the compatibility catalogs of one flight and one crew, where the *)
(* variable loop may build nothing.                                        *)
RerunShapes == {sh \in FullShapes : sh[1] <= 2 /\ sh[2] <= 2 /\ sh[3] = 1}

InitRerun ==
    /\ \/ \E sh \in RerunShapes : TimingCatalog(sh)
       \/ CompatCatalog(<<1, 1, 1>>)
    /\ Fresh("start")

NextRerun == Next \/ RunSolverAgain

SpecRerun == InitRerun /\ [][NextRerun]_vars

(* The solver run on the malformed catalogs. *)
InitMalformed ==
    /\ MalformedCatalog
    /\ Fresh("start")

SpecMalformed == InitMalformed /\ [][Next]_vars

(* The solver run on the catalogs where times, durations, hour limits,    *)
(* costs, bases and lambda vary.                                           *)
InitLimits ==
    /\ \/ \E sh \in FullShapes : TimingCatalog(sh)
       \/ \E sh \in FullShapes : HoursCatalog(sh)
       \/ \E sh \in FullShapes : SalaryCatalog(sh)
       \/ \E sh \in FullShapes : BaseCatalog(sh)
    /\ Fresh("start")

SpecLimits == InitLimits /\ [][Next]_vars

(* The same catalogs under pure cost minimisation. *)
InitCostOnly ==
    /\ \/ \E sh \in FullShapes : TimingCatalog(sh)
       \/ \E sh \in FullShapes : HoursCatalog(sh)
       \/ \E sh \in FullShapes : SalaryCatalog(sh)
       \/ \E sh \in FullShapes : BaseCatalog(sh)
    /\ lambda_weight = 0
    /\ Fresh("start")

SpecCostOnly == InitCostOnly /\ [][Next]_vars

TypeOK ==
    /\ pc \in {"idle", "start", "fallback", "optimize", "done", "emitted", "killed"}
    /\ pc \in {"start", "fallback", "optimize", "done"} =>
         /\ y_vars \subseteq FlightIdx \X PilotIdx \X CopilotIdx
         /\ X \subseteq y_vars
    /\ window.thread \in {"none", "running", "finished", "terminated"}
    /\ window.emitted \in {0, 1}
    /\ Len(document.dict) <= 1 /\ Len(document.loaded) <= 1

----------------------------------------------------------------------------
(* Vocabulary of the properties *)

(* compatible(f, c) of the data model: type qualified, languages covered *)
CrewCompatible(flight, crew) ==
    /\ flight.aircraft_type \in crew.qualifications
    /\ flight.languages \subseteq crew.languages

IsCandidateTriple(v) ==
    /\ CrewCompatible(flights[v[1]], pilots[v[2]])
    /\ CrewCompatible(flights[v[1]], copilots[v[3]])

CandidateTriples == {v \in FlightIdx \X PilotIdx \X CopilotIdx : IsCandidateTriple(v)}

(* The two flights' intervals intersect. *)
IsOverlappingPair(f1, f2) == f1.departure < f2.arrival /\ f2.departure < f1.arrival

(* One of the two departs after the other arrives, less than min_rest later. *)
IsTooClosePair(f1, f2) ==
    \/ (f2.departure - f1.arrival > 0 /\ f2.departure - f1.arrival < min_rest)
    \/ (f1.departure - f2.arrival > 0 /\ f1.departure - f2.arrival < min_rest)

Returned == pc = "done"

(* The assignments of the returned report (none in the ERREUR report). *)
ReportAssignments ==
    IF Returned /\ "assignments" \in DOMAIN results THEN results.assignments ELSE <<>>

SolverReport == Returned /\ optimizeCalls = 1

FallbackReport == Returned /\ fallbackCalls = 1

OptimalReport == Returned /\ results.status = GRB_OPTIMAL

SolverOptimalReport == SolverReport /\ results.status_str = "OPTIMAL"

AssignedHours(role, idx) ==
    LET asg == ReportAssignments
        mine == {i \in DOMAIN asg : asg[i][role] = idx}
        RECURSIVE Hours(_)
        Hours(I) == IF I = {} THEN 0
                    ELSE LET i == CHOOSE j \in I : TRUE
                         IN  asg[i].duration + Hours(I \ {i})
    IN  Hours(mine)

ExpectedCost(a) ==
    LET f == flights[a.flight]
        p == pilots[a.pilot]
        c == copilots[a.copilot]
        k == (IF f.arr_base # p.base THEN 1 ELSE 0) + (IF f.arr_base # c.base THEN 1 ELSE 0)
    IN  (p.hourly_cost + c.hourly_cost) * f.duration + f.op_cost + base_penalty_coeff * k

----------------------------------------------------------------------------
(* C1: in every returned report, solver or fallback, each flight of the    *)
(* catalog is referenced by at most one assignment.                        *)
C1_FlightAtMostOnce ==
    \A f \in FlightIdx :
        Cardinality({i \in DOMAIN ReportAssignments : ReportAssignments[i].flight = f}) <= 1

(* A solver report with two assignments although some flight had several   *)
(* variables to choose from.                                               *)
C1_Witness ==
    /\ SolverOptimalReport
    /\ Len(ReportAssignments) >= 2
    /\ \E f \in FlightIdx : Cardinality(VarsF(f)) >= 2

(* C2: an OPTIMAL report never gives two overlapping flights to the same   *)
(* pilot, nor to the same copilot.                                         *)
C2_NoOverlapForCrew ==
    OptimalReport =>
        \A i \in DOMAIN ReportAssignments : \A j \in DOMAIN ReportAssignments :
            LET a == ReportAssignments[i]
                b == ReportAssignments[j]
            IN  (a.flight # b.flight /\ IsOverlappingPair(flights[a.flight], flights[b.flight]))
                    => (a.pilot # b.pilot /\ a.copilot # b.copilot)

(* Count maximisation, two overlapping flights that one pilot and one      *)
(* copilot could both fly, and the report serves only one of them.         *)
C2_Witness ==
    /\ SolverOptimalReport
    /\ lambda_weight = 100
    /\ Len(ReportAssignments) = 1
    /\ \E pr \in overlaps : \E p \in PilotIdx : \E c \in CopilotIdx :
         {<<pr[1], p, c>>, <<pr[2], p, c>>} \subseteq y_vars

(* C3: an OPTIMAL report never gives both flights of a too-close pair      *)
(* (0 < gap < min_rest) to the same pilot.                                 *)
C3_PilotRest ==
    OptimalReport =>
        \A i \in DOMAIN ReportAssignments : \A j \in DOMAIN ReportAssignments :
            LET a == ReportAssignments[i]
                b == ReportAssignments[j]
            IN  (a.flight # b.flight /\ IsTooClosePair(flights[a.flight], flights[b.flight]))
                    => a.pilot # b.pilot

(* Either one alone is permitted: a too-close pair that one pilot could    *)
(* fly, and an OPTIMAL report that gives him exactly one of the two.       *)
C3_Witness ==
    /\ SolverOptimalReport
    /\ \E f1 \in FlightIdx : \E f2 \in FlightIdx : \E p \in PilotIdx :
         /\ f1 # f2
         /\ IsTooClosePair(flights[f1], flights[f2])
         /\ VarsFP(f1, p) # {} /\ VarsFP(f2, p) # {}
         /\ \E i \in DOMAIN ReportAssignments :
              ReportAssignments[i].flight = f1 /\ ReportAssignments[i].pilot = p
         /\ \A i \in DOMAIN ReportAssignments :
              ~(ReportAssignments[i].flight = f2 /\ ReportAssignments[i].pilot = p)

(* C4: the minimum-rest rule applied to the copilots: an OPTIMAL report    *)
(* never gives both flights of a too-close pair to the same copilot.       *)
C4_CopilotRest ==
    OptimalReport =>
        \A i \in DOMAIN ReportAssignments : \A j \in DOMAIN ReportAssignments :
            LET a == ReportAssignments[i]
                b == ReportAssignments[j]
            IN  (a.flight # b.flight /\ IsTooClosePair(flights[a.flight], flights[b.flight]))
                    => a.copilot # b.copilot

(* C5: in every returned report, fallback included, the durations assigned *)
(* to a crew member sum to at most his max_hours.                          *)
C5_MaxHours ==
    /\ \A p \in PilotIdx : AssignedHours("pilot", p) <= pilots[p].max_hours
    /\ \A c \in CopilotIdx : AssignedHours("copilot", c) <= copilots[c].max_hours

(* C6: once the variable loop has run, y_vars is exactly the set of        *)
(* candidate triples.                                                      *)
C6_VariablesAreCandidates ==
    (pc # "start" /\ ~InsufficientData) => y_vars = CandidateTriples

(* Some triples got a variable and some were filtered out. *)
C6_Witness ==
    /\ pc = "optimize"
    /\ y_vars # {}
    /\ y_vars # FlightIdx \X PilotIdx \X CopilotIdx

(* C7: every assignment of every returned report, the fallback's forced    *)
(* one included, is a candidate triple.                                    *)
C7_AssignmentsAreCandidates ==
    \A i \in DOMAIN ReportAssignments :
        LET a == ReportAssignments[i]
        IN  IsCandidateTriple(<<a.flight, a.pilot, a.copilot>>)

(* C8: every assignment of every returned report, fallback included,       *)
(* carries salary + operational cost + base-mismatch penalty.              *)
C8_AssignmentCost ==
    \A i \in DOMAIN ReportAssignments :
        ReportAssignments[i].cost = ExpectedCost(ReportAssignments[i])

(* C9: an OPTIMAL report of the solver has at least one assignment, for    *)
(* every lambda.                                                           *)
C9_OptimalIsNonEmpty ==
    SolverOptimalReport => Len(ReportAssignments) >= 1

(* Pure cost minimisation, where serving nothing would cost less. *)
C9_Witness ==
    /\ SolverOptimalReport
    /\ lambda_weight = 0
    /\ Len(ReportAssignments) = 1
    /\ results.total_cost > 0

----------------------------------------------------------------------------
(* The candidate triples in catalog order: flights, then pilots, then      *)
(* copilots.                                                               *)
CandidatesInOrder == SelectSeq(AllTriples, IsCandidateTriple)

(* C11: the fallback report holds at most one assignment; it holds none if *)
(* and only if the catalog has no candidate triple; the one it holds is    *)
(* the first candidate triple in catalog order.                            *)
C11_FallbackFirstCompatible ==
    FallbackReport =>
        /\ Len(results.assignments) <= 1
        /\ (Len(results.assignments) = 0) <=> (CandidateTriples = {})
        /\ Len(results.assignments) = 1 =>
             /\ CandidatesInOrder # <<>>
             /\ LET a == results.assignments[1]
                IN  <<a.flight, a.pilot, a.copilot>> = Head(CandidatesInOrder)

(* No pilot and no copilot holds the aircraft type of any flight. *)
NoCrewQualified ==
    \A f \in FlightIdx :
        /\ \A p \in PilotIdx : flights[f].aircraft_type \notin pilots[p].qualifications
        /\ \A c \in CopilotIdx : flights[f].aircraft_type \notin copilots[c].qualifications

(* C12: on a catalog of non-empty lists where no crew member is qualified  *)
(* for any flight's aircraft type, the variable loop builds nothing and    *)
(* solve() returns the fallback report, with no assignment.                *)
C12_NoQualifiedCrew ==
    (~InsufficientData /\ NoCrewQualified) =>
        /\ y_vars = {}
        /\ optimizeCalls = 0
        /\ Returned =>
             /\ fallbackCalls = 1
             /\ results.status_str = "OPTIMAL (secours)"
             /\ results.assignments = <<>>
             /\ results.solution = {}

(* Such a catalog, with several crew members, after solve() has returned. *)
C12_Witness ==
    /\ FallbackReport
    /\ NoCrewQualified
    /\ Len(pilots) + Len(copilots) >= 3
    /\ results.assignments = <<>>

----------------------------------------------------------------------------
(* The sets of candidate triples the rules allow: a flight at most once;   *)
(* no crew member, pilot or copilot, on both flights of an overlapping or  *)
(* too-close pair; no crew member beyond his max_hours.                    *)
IsLegalSet(S) ==
    /\ \A v \in S : \A w \in S :
          v # w =>
            /\ v[1] # w[1]
            /\ (\/ IsOverlappingPair(flights[v[1]], flights[w[1]])
                \/ IsTooClosePair(flights[v[1]], flights[w[1]]))
                  => (v[2] # w[2] /\ v[3] # w[3])
    /\ \A p \in PilotIdx : SumDuration({v \in S : v[2] = p}) <= pilots[p].max_hours
    /\ \A c \in CopilotIdx : SumDuration({v \in S : v[3] = c}) <= copilots[c].max_hours

LegalSets == {S \in SUBSET CandidateTriples : S # {} /\ IsLegalSet(S)}

TripleCost(v) == ExpectedCost([flight |-> v[1], pilot |-> v[2], copilot |-> v[3]])

RECURSIVE SetCost(_)
SetCost(S) ==
    IF S = {} THEN 0
    ELSE LET v == CHOOSE w \in S : TRUE
         IN  TripleCost(v) + SetCost(S \ {v})

(* C13: with lambda = 0 the total_cost of an OPTIMAL report is the least   *)
(* total cost of a non-empty legal set of candidate triples: the reported  *)
(* solution is such a set, of that cost, and none costs less; with a       *)
(* single flight the one assignment carries the whole cost.                *)
C13_CostOnly ==
    (SolverOptimalReport /\ lambda_weight = 0) =>
        /\ results.solution \in SUBSET CandidateTriples
        /\ results.solution # {}
        /\ IsLegalSet(results.solution)
        /\ SetCost(results.solution) = results.total_cost
        /\ \A S \in SUBSET CandidateTriples :
              \/ S = {}
              \/ results.total_cost <= SetCost(S)
              \/ ~IsLegalSet(S)
        /\ Len(flights) = 1 =>
             /\ Len(results.assignments) = 1
             /\ results.assignments[1].cost = results.total_cost

(* One flight, two legal teams of different cost, the cheaper one assigned *)
C13_Witness ==
    /\ SolverOptimalReport
    /\ lambda_weight = 0
    /\ Len(flights) = 1
    /\ \E v \in CandidateTriples : \E w \in CandidateTriples :
         /\ IsLegalSet({v}) /\ IsLegalSet({w})
         /\ TripleCost(v) < TripleCost(w)
         /\ results.solution = {v}

(* C14: with lambda = 1 the number of assignments of an OPTIMAL report is  *)
(* the largest size of a legal set of candidate triples.                   *)
C14_CountOnly ==
    (SolverOptimalReport /\ lambda_weight = LambdaScale) =>
        LET legal == LegalSets
        IN  /\ \E S \in legal : Cardinality(S) = Len(results.assignments)
            /\ \A S \in legal : Cardinality(S) <= Len(results.assignments)

(* C15: the objective_value of an OPTIMAL report, here times LambdaScale,  *)
(* is the weighted objective of its own assignments: minus their total     *)
(* cost at lambda = 0, their number at lambda = 1, and in between          *)
(* lambda * 1000 * number - (1 - lambda) * total cost; total_cost is the   *)
(* sum of the assignments' costs.                                          *)
C15_ObjectiveConsistent ==
    SolverOptimalReport =>
        LET n == Len(results.assignments)
            tc == SumSeqCost(results.assignments)
        IN  /\ results.total_cost = tc
            /\ lambda_weight = 0 => results.objective_value = LambdaScale * (0 - tc)
            /\ lambda_weight = LambdaScale => results.objective_value = LambdaScale * n
            /\ (0 < lambda_weight /\ lambda_weight < LambdaScale) =>
                 results.objective_value =
                     lambda_weight * 1000 * n - (LambdaScale - lambda_weight) * tc

(* A mixed objective over assignments that carry a base penalty. *)
C15_Witness ==
    /\ SolverOptimalReport
    /\ 0 < lambda_weight /\ lambda_weight < LambdaScale
    /\ Len(results.assignments) >= 2
    /\ \E i \in DOMAIN results.assignments :
         LET a == results.assignments[i]
         IN  BasePenalty(flights[a.flight], pilots[a.pilot], copilots[a.copilot]) > 0

----------------------------------------------------------------------------
(* C16: two runs on the same catalog, penalty coefficient and lambda, the  *)
(* second with a min_rest at least as large: if both end OPTIMAL the       *)
(* second objective value is not greater than the first, and a model that  *)
(* was solved to optimality is not found infeasible the second time.       *)
C16_MinRestMonotone ==
    (Returned /\ Len(previous) = 1 /\ previous[1].min_rest <= min_rest) =>
        /\ (previous[1].status_str = "OPTIMAL" /\ results.status_str = "OPTIMAL") =>
             results.objective_value <= previous[1].objective_value
        /\ previous[1].status_str = "OPTIMAL" => results.status_str # "INFAISABLE"

(* A larger min_rest that costs the second run part of its objective. *)
C16_Witness ==
    /\ Returned
    /\ Len(previous) = 1
    /\ previous[1].min_rest < min_rest
    /\ previous[1].status_str = "OPTIMAL"
    /\ results.status_str = "OPTIMAL"
    /\ results.objective_value < previous[1].objective_value

----------------------------------------------------------------------------
(* The second flight leaves at the very moment the first arrives. *)
Touching(f1, f2) == f2.departure = f1.arrival

(* C17: two exactly-touching flights are neither overlapping nor too close *)
(* for the solver, whatever min_rest; once the variables exist, giving     *)
(* both flights to one pilot and one copilot breaks no overlap and no rest *)
(* constraint of the model.                                                *)
C17_TouchingFlights ==
    LET touching == {pr \in FlightIdx \X FlightIdx :
                        pr[1] # pr[2] /\ Touching(flights[pr[1]], flights[pr[2]])}
        linking == IF pc = "optimize"
                   THEN OverlapConstrsPilots \cup OverlapConstrsCopilots
                            \cup RestConstrsPilots
                   ELSE {}
    IN  \A pr \in touching :
            /\ ~Overlapping(flights[pr[1]], flights[pr[2]])
            /\ ~Overlapping(flights[pr[2]], flights[pr[1]])
            /\ ~RestTooClose(flights[pr[1]], flights[pr[2]])
            /\ ~RestTooClose(flights[pr[2]], flights[pr[1]])
            /\ pc = "optimize" =>
                 \A p \in PilotIdx : \A c \in CopilotIdx :
                     LET both == {<<pr[1], p, c>>, <<pr[2], p, c>>}
                     IN  both \subseteq y_vars =>
                           \A k \in linking : Satisfies(both, k)

(* An OPTIMAL report, under a positive min_rest, that gives two touching   *)
(* flights to the same pilot and the same copilot.                         *)
C17_Witness ==
    /\ SolverOptimalReport
    /\ min_rest > 0
    /\ \E i \in DOMAIN results.assignments : \E j \in DOMAIN results.assignments :
         LET a == results.assignments[i]
             b == results.assignments[j]
         IN  /\ a.flight # b.flight
             /\ Touching(flights[a.flight], flights[b.flight])
             /\ a.pilot = b.pilot
             /\ a.copilot = b.copilot

----------------------------------------------------------------------------
(* One flight, one pilot, one copilot, both compatible with the flight and *)
(* both based where it arrives.                                            *)
SingleMatchedCatalog ==
    /\ Len(flights) = 1 /\ Len(pilots) = 1 /\ Len(copilots) = 1
    /\ IsCandidateTriple(<<1, 1, 1>>)
    /\ pilots[1].base = flights[1].arr_base
    /\ copilots[1].base = flights[1].arr_base

SingleMatchedCost ==
    (pilots[1].hourly_cost + copilots[1].hourly_cost) * flights[1].duration
        + flights[1].op_cost

(* C18, as stated: on such a catalog solve() returns exactly one           *)
(* assignment, of cost salary + operational cost, whatever lambda,         *)
(* min_rest, the penalty coefficient and the crew hour limits (read for    *)
(* the runs the optimizer completes).                                      *)
C18_SingleFlightAsStated ==
    (Returned /\ SingleMatchedCatalog /\ status \in {GRB_OPTIMAL, GRB_INFEASIBLE}) =>
        /\ Len(ReportAssignments) = 1
        /\ ReportAssignments[1].cost = SingleMatchedCost

(* C18, amended: the same when both hour limits are at least the flight's  *)
(* duration and the optimizer ends OPTIMAL; when a limit is below the      *)
(* duration the model is infeasible and the report has no assignment.      *)
C18_SingleFlight ==
    (Returned /\ SingleMatchedCatalog) =>
        LET enough == /\ flights[1].duration <= pilots[1].max_hours
                      /\ flights[1].duration <= copilots[1].max_hours
        IN  /\ optimizeCalls = 1 /\ fallbackCalls = 0
            /\ enough => status # GRB_INFEASIBLE
            /\ (enough /\ status = GRB_OPTIMAL) =>
                 /\ results.assignments = << Assignment(<<1, 1, 1>>, SingleMatchedCost) >>
                 /\ results.total_cost = SingleMatchedCost
            /\ ~enough =>
                 /\ status # GRB_OPTIMAL
                 /\ results.assignments = <<>>

(* The single assignment, under a positive penalty coefficient. *)
C18_Witness ==
    /\ Returned
    /\ SingleMatchedCatalog
    /\ base_penalty_coeff > 0
    /\ status = GRB_OPTIMAL
    /\ Len(results.assignments) = 1

(* C19: when the optimizer's status is not OPTIMAL the report carries that *)
(* status and its text, no assignment, an empty solution map, no objective *)
(* value and a total_cost of 0, whatever values the variables hold.        *)
C19_NonOptimalIsEmpty ==
    (SolverReport /\ status # GRB_OPTIMAL) =>
        results = [status |-> status,
                   status_str |-> IF status = GRB_INFEASIBLE THEN "INFAISABLE"
                                  ELSE IF status = GRB_TIME_LIMIT THEN "TEMPS_LIMITE"
                                  ELSE "AUTRE",
                   objective_value |-> NoneVal, solution |-> {},
                   assignments |-> <<>>, total_cost |-> 0]

(* The time limit reached while the variables hold a valuation. *)
C19_Witness ==
    /\ SolverReport
    /\ status = GRB_TIME_LIMIT
    /\ X # {}
    /\ results.status_str = "TEMPS_LIMITE"

(* C20: at TIME_LIMIT the report holds the assignments of the best         *)
(* valuation found, and is empty only if the optimizer holds none.         *)
C20_TimeLimitBestValuation ==
    (SolverReport /\ status = GRB_TIME_LIMIT) =>
        /\ X # {} =>
             {<<results.assignments[i].flight, results.assignments[i].pilot,
                results.assignments[i].copilot>> : i \in DOMAIN results.assignments} = X
        /\ results.assignments = <<>> => X = {}

(* C23: the assignments of every returned report are listed by             *)
(* non-decreasing departure time of their flights, whatever the order of   *)
(* the flights in the catalog.                                             *)
C23_OrderedByDeparture ==
    \A i \in DOMAIN ReportAssignments : \A j \in DOMAIN ReportAssignments :
        i < j => ReportAssignments[i].departure <= ReportAssignments[j].departure

(* C26: the status field of a fallback report differs from every status    *)
(* the optimizer can end with, OPTIMAL included.                            *)
C26_FallbackStatusDistinct ==
    FallbackReport =>
        results.status \notin {GRB_LOADED, GRB_OPTIMAL, GRB_INFEASIBLE,
                               GRB_TIME_LIMIT, GRB_INTERRUPTED}

(* C21: a catalog with a malformed entity (arrival <= departure, negative  *)
(* operational or hourly cost, negative hour limit) is rejected before any *)
(* variable is created: no variable, no fallback, no optimizer call, and   *)
(* the run ends with an error report.                                      *)
C21_MalformedRejected ==
    IsMalformedCatalog =>
        /\ y_vars = {}
        /\ optimizeCalls = 0
        /\ fallbackCalls = 0
        /\ Returned => results.status_str = "ERREUR"

----------------------------------------------------------------------------
(* The flight of triple v lasts no longer than either member's max_hours. *)
FitsHours(v) ==
    /\ flights[v[1]].duration <= pilots[v[2]].max_hours
    /\ flights[v[1]].duration <= copilots[v[3]].max_hours

(* C27: on a catalog with at least one candidate triple the model has no   *)
(* feasible valuation exactly when every candidate triple exceeds an hour  *)
(* limit of one of its members; the optimizer ends INFEASIBLE only then,   *)
(* never OPTIMAL then, and when some triple fits an OPTIMAL report has at  *)
(* least one assignment, whatever the overlaps and min_rest.               *)
C27_InfeasibleIffNoTripleFits ==
    LET fits == \E v \in CandidateTriples : FitsHours(v)
    IN  /\ pc = "optimize" => ((Feasible = {}) <=> ~fits)
        /\ SolverReport =>
             /\ status = GRB_INFEASIBLE => ~fits
             /\ status = GRB_OPTIMAL => (fits /\ Len(results.assignments) >= 1)

(* Two overlapping flights, a positive min_rest, one triple that fits and  *)
(* one that does not: the report is OPTIMAL.                               *)
C27_Witness ==
    /\ SolverOptimalReport
    /\ min_rest > 0
    /\ overlaps # {}
    /\ \E v \in CandidateTriples : FitsHours(v)
    /\ \E v \in CandidateTriples : ~FitsHours(v)

(* Triple v costs more than serving its flight is worth in the weighted    *)
(* objective: cost > 1000 * lambda / (1 - lambda).                         *)
LossMaking(v) ==
    TripleCost(v) * (LambdaScale - lambda_weight) > 1000 * lambda_weight

(* C28: in weighted mode an OPTIMAL report with two or more assignments    *)
(* holds no loss-making triple; one appears only as the sole assignment.   *)
C28_NoLossMakingAmongSeveral ==
    (SolverOptimalReport /\ 0 < lambda_weight /\ lambda_weight < LambdaScale) =>
        \A v \in results.solution :
            LossMaking(v) => results.solution = {v}

(* Two assignments kept and a loss-making candidate left out. *)
C28_Witness ==
    /\ SolverOptimalReport
    /\ 0 < lambda_weight /\ lambda_weight < LambdaScale
    /\ Len(results.assignments) >= 2
    /\ \E v \in y_vars : LossMaking(v)

----------------------------------------------------------------------------
----------------------------------------------------------------------------
(* DataModel.to_dict / from_dict.  A row of the DataModel is the dict      *)
(* add_flight / add_pilot / add_copilot appended; the fields the solver    *)
(* never reads (dep_base, name, min_hours) are kept at one value.          *)

flight_row(i) ==
    [id |-> i, departure |-> flights[i].departure, arrival |-> flights[i].arrival,
     duration |-> flights[i].duration, aircraft_type |-> flights[i].aircraft_type,
     dep_base |-> "CDG", arr_base |-> flights[i].arr_base,
     languages |-> flights[i].languages, op_cost |-> flights[i].op_cost]

crew_row(crew, i) ==
    [id |-> i, name |-> i, qualifications |-> crew[i].qualifications,
     languages |-> crew[i].languages, hourly_cost |-> crew[i].hourly_cost,
     base |-> crew[i].base, min_hours |-> 0, max_hours |-> crew[i].max_hours]

(* The DataModel the state variables stand for. *)
data_model ==
    [flights |-> [i \in FlightIdx |-> flight_row(i)],
     pilots |-> [i \in PilotIdx |-> crew_row(pilots, i)],
     copilots |-> [i \in CopilotIdx |-> crew_row(copilots, i)],
     min_rest |-> min_rest,
     base_penalty_coeff |-> base_penalty_coeff,
     lambda_weight |-> lambda_weight]

to_dict(self) ==
    [flights |-> self.flights,
     pilots |-> self.pilots,
     copilots |-> self.copilots,
     parameters |-> [min_rest |-> self.min_rest,
                     base_penalty_coeff |-> self.base_penalty_coeff,
                     lambda_weight |-> self.lambda_weight]]

(* The parameter names of add_flight and of add_pilot / add_copilot: a     *)
(* call with keyword arguments kw binds when the keys of kw are exactly    *)
(* these names.                                                            *)
add_flight_params ==
    {"flight_id", "departure", "arrival", "duration", "aircraft_type",
     "dep_base", "arr_base", "languages", "op_cost"}

add_crew_params(role) ==
    {role \o "_id", "name", "qualifications", "languages",
     "hourly_cost", "base", "min_hours", "max_hours"}

Binds(kw, params) == DOMAIN kw = params

add_flight(kw) ==
    [id |-> kw.flight_id, departure |-> kw.departure, arrival |-> kw.arrival,
     duration |-> kw.duration, aircraft_type |-> kw.aircraft_type,
     dep_base |-> kw.dep_base, arr_base |-> kw.arr_base,
     languages |-> kw.languages, op_cost |-> kw.op_cost]

add_pilot(kw) ==
    [id |-> kw.pilot_id, name |-> kw.name, qualifications |-> kw.qualifications,
     languages |-> kw.languages, hourly_cost |-> kw.hourly_cost,
     base |-> kw.base, min_hours |-> kw.min_hours, max_hours |-> kw.max_hours]

add_copilot(kw) ==
    [id |-> kw.copilot_id, name |-> kw.name, qualifications |-> kw.qualifications,
     languages |-> kw.languages, hourly_cost |-> kw.hourly_cost,
     base |-> kw.base, min_hours |-> kw.min_hours, max_hours |-> kw.max_hours]

(* The number of rows a loop of from_dict appends before a call fails to   *)
(* bind, all of them if none fails.                                        *)
Appended(rows, params) ==
    LET bad == {k \in DOMAIN rows : ~Binds(rows[k], params)}
    IN  IF bad = {} THEN Len(rows)
        ELSE (CHOOSE k \in bad : \A j \in bad : k <= j) - 1

(* from_dict(data) on a DataModel: clear(), the parameters with their      *)
(* defaults, then the three loops; the first call that does not bind       *)
(* raises TypeError and leaves the DataModel as far as it was loaded.      *)
from_dict(data) ==
    LET params == IF "parameters" \in DOMAIN data THEN data.parameters ELSE <<>>
        get(key, default) == IF key \in DOMAIN params THEN params[key] ELSE default
        fl == IF "flights" \in DOMAIN data THEN data.flights ELSE <<>>
        pl == IF "pilots" \in DOMAIN data THEN data.pilots ELSE <<>>
        cl == IF "copilotes" \in DOMAIN data THEN data.copilotes
              ELSE IF "copilots" \in DOMAIN data THEN data.copilots ELSE <<>>
        nf == Appended(fl, add_flight_params)
        np == IF nf = Len(fl) THEN Appended(pl, add_crew_params("pilot")) ELSE 0
        nc == IF nf = Len(fl) /\ np = Len(pl)
              THEN Appended(cl, add_crew_params("copilot")) ELSE 0
        raised == nf < Len(fl) \/ np < Len(pl) \/ nc < Len(cl)
    IN  [error |-> IF raised THEN "TypeError" ELSE "",
         self |-> [flights |-> [k \in 1 .. nf |-> add_flight(fl[k])],
                   pilots |-> [k \in 1 .. np |-> add_pilot(pl[k])],
                   copilots |-> [k \in 1 .. nc |-> add_copilot(cl[k])],
                   min_rest |-> get("min_rest", 8),
                   base_penalty_coeff |-> get("base_penalty_coeff", 100),
                   lambda_weight |-> get("lambda_weight", 50)]]

(* d = m.to_dict() *)
ToDict ==
    /\ Len(document.dict) = 0
    /\ document' = [document EXCEPT !.dict = << to_dict(data_model) >>]
    /\ UNCHANGED <<catalog, pc, y_vars, status, X, results, optimizeCalls,
                   fallbackCalls, previous, window>>

(* DataModel().from_dict(d) *)
FromDict ==
    /\ Len(document.dict) = 1
    /\ Len(document.loaded) = 0
    /\ LET r == from_dict(document.dict[1])
       IN  document' = [document EXCEPT !.loaded = << r.self >>, !.error = r.error]
    /\ UNCHANGED <<catalog, pc, y_vars, status, X, results, optimizeCalls,
                   fallbackCalls, previous, window>>

(* Data models of at most one flight, one pilot and one copilot, any list  *)
(* possibly empty.                                                         *)
DataShapes == {sh \in Shapes : sh[1] <= 1 /\ sh[2] <= 1 /\ sh[3] <= 1}

InitData ==
    /\ \/ \E sh \in DataShapes \cap FullShapes : BaseCatalog(sh)
       \/ \E sh \in DataShapes \ FullShapes :
            /\ InsufficientCatalog(sh)
       \/ /\ flights = <<>> /\ pilots = <<>> /\ copilots = <<>>
          /\ min_rest \in MinRests
          /\ base_penalty_coeff \in PenaltyCoeffs
          /\ lambda_weight \in Lambdas
    /\ Fresh("start")

NextData == ToDict \/ FromDict

SpecData == InitData /\ [][NextData]_vars

(* C30: serialisation round-trips: from_dict of to_dict(m) succeeds, the   *)
(* DataModel it loaded has the flights, pilots, copilots, min_rest,        *)
(* base_penalty_coeff and lambda_weight of m, and its to_dict equals       *)
(* to_dict(m).                                                             *)
C30_RoundTrip ==
    Len(document.loaded) = 1 =>
        /\ document.error = ""
        /\ document.loaded[1] = data_model
        /\ to_dict(document.loaded[1]) = document.dict[1]

----------------------------------------------------------------------------
(* The main window around the solver thread.  pc is "idle" while no run()  *)
(* is in progress, "start" .. "done" inside solve(), "emitted" between the *)
(* emission of finished_signal and the slot on_solver_finished, "killed"   *)
(* after terminate().                                                      *)

(* DataModel.load_example_data *)
example_flights ==
    << Flight(8, 10, 2, "A320", "MRS", {"FR"}, 500),
       Flight(11, 13, 2, "A320", "CDG", {"FR"}, 550),
       Flight(14, 16, 2, "B737", "ORY", {"EN"}, 600),
       Flight(17, 19, 2, "A320", "CDG", {"FR", "EN"}, 650) >>

example_pilots ==
    << Crew({"A320"}, {"FR"}, 150, "CDG", 100),
       Crew({"A320", "B737"}, {"FR", "EN"}, 160, "ORY", 100),
       Crew({"B737"}, {"EN"}, 155, "MRS", 100) >>

example_copilots ==
    << Crew({"A320"}, {"FR"}, 120, "CDG", 90),
       Crew({"A320", "B737"}, {"FR", "EN"}, 125, "ORY", 90),
       Crew({"B737"}, {"EN"}, 130, "MRS", 90) >>

ExampleCatalog ==
    /\ flights = example_flights
    /\ pilots = example_pilots
    /\ copilots = example_copilots
    /\ min_rest = 8
    /\ base_penalty_coeff = 100
    /\ lambda_weight = 50

(* Values of min_rest_spin: its default and the top of its range. *)
SpinRests == {8, 24}

(* update_lambda, the slot of lambda_slider.valueChanged; the slider is a  *)
(* child of tab_widget.                                                    *)
update_lambda_Unguarded ==
    /\ window.open
    /\ \E value \in Lambdas \ {lambda_weight} : lambda_weight' = value
    /\ UNCHANGED <<flights, pilots, copilots, min_rest, base_penalty_coeff,
                   pc, y_vars, status, X, results, optimizeCalls, fallbackCalls,
                   previous, window, document>>

update_lambda ==
    /\ window.open /\ window.enabled
    /\ \E value \in Lambdas \ {lambda_weight} : lambda_weight' = value
    /\ UNCHANGED <<flights, pilots, copilots, min_rest, base_penalty_coeff,
                   pc, y_vars, status, X, results, optimizeCalls, fallbackCalls,
                   previous, window, document>>

(* load_example_data, the slot of example_btn: DataModel.clear() and the   *)
(* example rows; clear() also forgets the solution.                        *)
load_example_data ==
    /\ window.open /\ window.enabled
    /\ flights' = example_flights
    /\ pilots' = example_pilots
    /\ copilots' = example_copilots
    /\ min_rest' = 8 /\ base_penalty_coeff' = 100 /\ lambda_weight' = 50
    /\ window' = [window EXCEPT !.solution = <<>>, !.objective_value = <<>>]
    /\ UNCHANGED <<pc, y_vars, status, X, results, optimizeCalls, fallbackCalls,
                   previous, document>>

(* clear_all, the slot of clear_btn, answered Yes. *)
clear_all ==
    /\ window.open /\ window.enabled
    /\ flights' = <<>> /\ pilots' = <<>> /\ copilots' = <<>>
    /\ min_rest' = 8 /\ base_penalty_coeff' = 100 /\ lambda_weight' = 50
    /\ window' = [window EXCEPT !.solution = <<>>, !.objective_value = <<>>]
    /\ UNCHANGED <<pc, y_vars, status, X, results, optimizeCalls, fallbackCalls,
                   previous, document>>

(* run_solver, the slot of solve_btn: save_all_data() writes the spin      *)
(* boxes and the tables (which hold the rows of the model) to the model;   *)
(* with an empty list a warning and nothing else; otherwise tab_widget is  *)
(* disabled and a new GurobiSolver thread is started on the shared model.  *)
run_solver ==
    /\ window.open /\ window.enabled
    /\ \E mr \in SpinRests : min_rest' = mr
    /\ UNCHANGED <<flights, pilots, copilots, base_penalty_coeff, lambda_weight,
                   previous, document>>
    /\ IF InsufficientData
       THEN UNCHANGED <<pc, y_vars, status, X, results, optimizeCalls,
                        fallbackCalls, window>>
       ELSE /\ window' = [window EXCEPT !.enabled = FALSE, !.thread = "running",
                                        !.emitted = 0]
            /\ pc' = "start"
            /\ y_vars' = {}
            /\ status' = GRB_LOADED
            /\ X' = {}
            /\ results' = NoResults
            /\ optimizeCalls' = 0
            /\ fallbackCalls' = 0

(* The locals of solve() (the Gurobi model, y_vars) end with run(). *)
LocalsGone ==
    /\ y_vars' = {}
    /\ status' = GRB_LOADED
    /\ X' = {}
    /\ optimizeCalls' = 0
    /\ fallbackCalls' = 0

(* run(): an exception raised anywhere inside solve() reaches the except   *)
(* clause, which emits finished_signal with the error report.              *)
run_except_Swallowed ==
    /\ pc \in {"start", "fallback", "optimize"}
    /\ window.thread = "running"
    /\ results' = [error |-> "Exception"]
    /\ window' = [window EXCEPT !.thread = "finished"]
    /\ pc' = "killed"
    /\ LocalsGone
    /\ UNCHANGED <<catalog, previous, document>>

run_except ==
    /\ pc \in {"start", "fallback", "optimize"}
    /\ window.thread = "running"
    /\ results' = [error |-> "Exception"]
    /\ window' = [window EXCEPT !.emitted = @ + 1, !.thread = "finished"]
    /\ pc' = "emitted"
    /\ LocalsGone
    /\ UNCHANGED <<catalog, previous, document>>

(* run(): solve() returned, finished_signal.emit(results), end of run(). *)
run_emit ==
    /\ pc = "done"
    /\ window.thread = "running"
    /\ window' = [window EXCEPT !.emitted = @ + 1, !.thread = "finished"]
    /\ pc' = "emitted"
    /\ LocalsGone
    /\ UNCHANGED <<catalog, results, previous, document>>

(* results.get(key) of on_solver_finished; objective_value is None in      *)
(* every report that is not OPTIMAL.                                       *)
results_get_solution ==
    IF "solution" \in DOMAIN results THEN << results.solution >> ELSE <<>>

results_get_objective_value ==
    IF "objective_value" \in DOMAIN results
          /\ results.status_str \in {"OPTIMAL", "OPTIMAL (secours)"}
    THEN << results.objective_value >> ELSE <<>>

(* on_solver_finished, the slot of finished_signal, run by the window's    *)
(* event loop.                                                             *)
on_solver_finished_StoresAlways ==
    /\ pc = "emitted"
    /\ window.open
    /\ window' = [window EXCEPT !.enabled = TRUE,
                                !.solution = results_get_solution,
                                !.objective_value = results_get_objective_value]
    /\ pc' = "idle"
    /\ UNCHANGED <<catalog, y_vars, status, X, results, optimizeCalls,
                   fallbackCalls, previous, document>>

on_solver_finished ==
    /\ pc = "emitted"
    /\ window.open
    /\ IF "error" \in DOMAIN results
       THEN window' = [window EXCEPT !.enabled = TRUE]
       ELSE window' = [window EXCEPT !.enabled = TRUE,
                                     !.solution = results_get_solution,
                                     !.objective_value = results_get_objective_value]
    /\ pc' = "idle"
    /\ UNCHANGED <<catalog, y_vars, status, X, results, optimizeCalls,
                   fallbackCalls, previous, document>>

(* closeEvent, accepted: with the thread running the question is answered  *)
(* Yes and the thread is terminated; answered No the event is ignored and  *)
(* nothing changes.                                                        *)
closeEvent ==
    /\ window.open
    /\ IF window.thread = "running"
       THEN /\ window' = [window EXCEPT !.open = FALSE, !.thread = "terminated"]
            /\ pc' = "killed"
            /\ results' = NoResults
            /\ LocalsGone
       ELSE /\ window' = [window EXCEPT !.open = FALSE]
            /\ UNCHANGED <<pc, y_vars, status, X, results, optimizeCalls, fallbackCalls>>
    /\ UNCHANGED <<catalog, previous, document>>

(* The window after construction, with the example rows in its tables, or  *)
(* with a catalog of one flight and one crew typed into them.              *)
InitWindow ==
    /\ \/ ExampleCatalog
       \/ CompatCatalog(<<1, 1, 1>>)
    /\ Fresh("idle")

NextWindow ==
    \/ update_lambda
    \/ load_example_data
    \/ clear_all
    \/ run_solver
    \/ SolveBuild
    \/ SolveFallback
    \/ SolveOptimize
    \/ run_except
    \/ run_emit
    \/ on_solver_finished
    \/ closeEvent

SpecWindow == InitWindow /\ [][NextWindow]_vars

(* The window whose tables hold a typed catalog and whose example button   *)
(* is left alone.  The thread runs to the end of run() unless it is        *)
(* terminated (the optimizer stops at TimeLimit at the latest), and the    *)
(* event loop delivers a queued signal while the window is open; each of   *)
(* these steps moves pc.                                                   *)
InitWindowLive ==
    /\ CompatCatalog(<<1, 1, 1>>)
    /\ Fresh("idle")

NextWindowLive ==
    \/ update_lambda
    \/ clear_all
    \/ run_solver
    \/ SolveBuild
    \/ SolveFallback
    \/ SolveOptimize
    \/ run_except
    \/ run_emit
    \/ on_solver_finished
    \/ closeEvent

SpecWindowLive ==
    /\ InitWindowLive
    /\ [][NextWindowLive]_vars
    /\ WF_pc(SolveBuild)
    /\ WF_pc(SolveFallback)
    /\ WF_pc(SolveOptimize)
    /\ WF_pc(run_emit)
    /\ WF_pc(on_solver_finished)

----------------------------------------------------------------------------
(* solve() is in progress in the worker thread. *)
Solving == pc \in {"start", "fallback", "optimize", "done"}

(* The report finished_signal carries is the error report of run(). *)
ErrorReport == "error" \in DOMAIN results

(* C22: an exception raised inside solve() is caught in run() and reaches  *)
(* the window as an error report: run() ends normally, having emitted the  *)
(* report once, and on_solver_finished, given an error report, re-enables  *)
(* the interface and leaves data_model.solution and objective_value as     *)
(* they were.                                                              *)
C22_ExceptionsReported ==
    /\ [](window.thread = "finished" => window.emitted = 1)
    /\ []((pc = "emitted" /\ ErrorReport) => window.thread = "finished")
    /\ [][(pc = "emitted" /\ pc' = "idle" /\ ErrorReport) =>
             /\ window'.enabled
             /\ window'.solution = window.solution
             /\ window'.objective_value = window.objective_value]_vars

(* A failed run delivered after a successful one: the window still holds   *)
(* the earlier solution and objective value.                               *)
C22_Witness ==
    /\ pc = "idle"
    /\ window.thread = "finished"
    /\ ErrorReport
    /\ window.enabled
    /\ Len(window.solution) = 1 /\ window.solution[1] # {}
    /\ Len(window.objective_value) = 1

(* C25: from run_solver starting the thread until on_solver_finished the   *)
(* interface is disabled, the catalog and parameters are not modified      *)
(* while solve() runs, and a solve starts only when none is in progress or *)
(* undelivered.                                                            *)
C25_NoWriteWhileSolving ==
    /\ []((Solving \/ pc = "emitted") => ~window.enabled)
    /\ [][Solving => UNCHANGED catalog]_vars
    /\ [][(pc' = "start" /\ pc # "start") => (pc = "idle" /\ window.enabled)]_vars

(* A second solve in progress, the first one delivered, the interface      *)
(* disabled.                                                               *)
C25_Witness ==
    /\ pc = "optimize"
    /\ window.thread = "running"
    /\ ~window.enabled
    /\ Len(window.solution) = 1

====
